---- MODULE Spec2Model ----
(***************************************************************************)
(* Reminder scheduling of MemoraeAI2.0: ReminderScheduler                  *)
(* (src/reminder_scheduler.py) and the parts of TelegramBot (src/bot.py)   *)
(* that create reminders and deliver them.                                 *)
(*                                                                         *)
(* Time is counted in seconds of the scheduler's fixed timezone            *)
(* (Asia/Kolkata, no daylight saving), second 0 being a midnight.          *)
(*                                                                         *)
(* The job store is the in-memory store of BackgroundScheduler: the code   *)
(* configures no other. add_job, remove_job and the scheduler thread's     *)
(* processing of a due job each run under the scheduler's job store lock,  *)
(* so each is one step here. A due job is handed to a worker thread and    *)
(* removed from the store in the same step (a DateTrigger has no next run  *)
(* time); the worker then calls reminder_callback. Workers are taken to    *)
(* start a handed-over job within the library's misfire grace time. The    *)
(* executor runs at most one instance of a job id at a time: a due job     *)
(* whose id has a callback under way is removed without being run.         *)
(***************************************************************************)
EXTENDS Integers, Sequences, FiniteSets, TLC

VARIABLES
    now,        \* the wall clock, datetime.now(self.timezone)
    jobs,       \* ReminderScheduler.scheduler: the jobs of the job store
    running,    \* reminder_callback executions handed to the worker threads
    db,         \* table reminders: id -> row, or NoRow
    nextSeq,    \* the number of the next job add_job installs (Job identity)
    watch,      \* history of one installed job, any one: what became of it
    last,       \* history: the call that has just returned and its result
    delivered   \* history: the ids a send_message call has returned for

vars == <<now, jobs, running, db, nextSeq, watch, last, delivered>>

-----------------------------------------------------------------------------
(* Bounds of the model *)

MaxTime == 2
MaxJobs == 2

(* Units of timedelta, in seconds *)

Minute == 60
Hour == 3600
Day == 86400
Week == 604800

\* datetime.max is 9999-12-31: the days left before `now + timedelta` raises
\* OverflowError
DaysLeft == 2900000

\* the inputs of the model: the users take turns in sending a message, every
\* message has the same content and every correction another one
Submitter(rid) == IF rid % 2 = 1 THEN "u1" ELSE "u2"
Message == "c1"
Correction == "c2"
Ids == 1..MaxJobs

NoRow == [exists |-> FALSE]
NoTime == -1000000
NoAmount == -1000000

-----------------------------------------------------------------------------
(* Time phrases.  A phrase is the lower-cased, stripped time_str, described *)
(* by what parse_time reads of it.                                          *)

Phrase(lead, parts, amount, unit, tomorrow, today, at, tod, abs) ==
    [lead |-> lead,          \* "in" / "after": time_str.startswith(...)
     parts |-> parts,        \* len(time_str[k:].split())
     amount |-> amount,      \* int(parts[0]), NoAmount when it raises ValueError
     unit |-> unit,          \* which of the unit tests parts[1] passes first
     tomorrow |-> tomorrow,  \* "tomorrow" in time_str
     today |-> today,        \* "today" in time_str
     at |-> at,              \* "at" in time_str
     tod |-> tod,            \* second of the day strptime reads after "at", or NoTime
     abs |-> abs]            \* the time a full date-time format reads, or NoTime

Relative(lead, n, unit) ==
    Phrase(lead, 2, n, unit, FALSE, FALSE, FALSE, NoTime, NoTime)
Absolute(t) ==
    Phrase("none", 0, NoAmount, "other", FALSE, FALSE, FALSE, NoTime, t)

\* `sub in unit`, both written letter by letter
Has(unit, sub) ==
    \E i \in 1..(Len(unit) - Len(sub) + 1) :
        SubSeq(unit, i, i + Len(sub) - 1) = sub

\* lines 60-77: the first of the unit tests that parts[1] passes
unit_of(unit) ==
    IF Has(unit, <<"s", "e", "c", "o", "n", "d">>) \/ Has(unit, <<"s", "e", "c">>)
    THEN "sec"
    ELSE IF Has(unit, <<"m", "i", "n", "u", "t", "e">>) \/ Has(unit, <<"m", "i", "n">>)
    THEN "min"
    ELSE IF Has(unit, <<"h", "o", "u", "r">>) \/ Has(unit, <<"h", "r">>)
    THEN "hour"
    ELSE IF Has(unit, <<"d", "a", "y">>)
    THEN "day"
    ELSE IF Has(unit, <<"w", "e", "e", "k">>)
    THEN "week"
    ELSE "other"

\* "in N unit" / "after N unit", followed by "tomorrow" or by nothing
RelativeText(lead, n, unit, tomorrow) ==
    Phrase(lead, IF tomorrow THEN 3 ELSE 2, n, unit_of(unit), tomorrow,
           FALSE, FALSE, NoTime, NoTime)

UnitSeconds(unit) ==
    CASE unit = "sec" -> 1
      [] unit = "min" -> Minute
      [] unit = "hour" -> Hour
      [] unit = "day" -> Day
      [] unit = "week" -> Week

\* now + timedelta(<unit>=amount) raises OverflowError past datetime.max
Overflows(amount, unit) ==
    CASE unit = "sec" -> amount \div Day > DaysLeft
      [] unit = "min" -> amount \div (Day \div Minute) > DaysLeft
      [] unit = "hour" -> amount \div 24 > DaysLeft
      [] unit = "day" -> amount > DaysLeft
      [] unit = "week" -> amount > DaysLeft \div 7

DayStart(t) == (t \div Day) * Day

Parsed(t) == [ok |-> TRUE, time |-> t]
Raised == [ok |-> FALSE, time |-> NoTime]

\* lines 133-151: the full date-time formats, then the default of one hour
parse_absolute(p, t) ==
    IF p.abs # NoTime THEN Parsed(p.abs) ELSE Parsed(t + Hour)

\* the "at" rule, had it also rolled over a time equal to the clock
parse_today_le(p, t) ==
    IF (p.today \/ p.at) /\ p.at /\ p.tod # NoTime
    THEN LET result == DayStart(t) + p.tod
         IN  IF result <= t THEN Parsed(result + Day) ELSE Parsed(result)
    ELSE parse_absolute(p, t)

\* lines 109-131: "today" or "at": today at the time of day, rolled to
\* tomorrow when already passed
parse_today(p, t) ==
    IF (p.today \/ p.at) /\ p.at /\ p.tod # NoTime
    THEN LET result == DayStart(t) + p.tod
         IN  IF result < t THEN Parsed(result + Day) ELSE Parsed(result)
    ELSE parse_absolute(p, t)

\* the "tomorrow" rule, had its default been the start of tomorrow
parse_tomorrow_start(p, t) ==
    IF p.tomorrow
    THEN IF p.at /\ p.tod # NoTime
         THEN Parsed(DayStart(t + Day) + p.tod)
         ELSE Parsed(DayStart(t + Day))
    ELSE parse_today(p, t)

\* lines 84-107: "tomorrow"
parse_tomorrow(p, t) ==
    IF p.tomorrow
    THEN IF p.at /\ p.tod # NoTime
         THEN Parsed(DayStart(t + Day) + p.tod)
         ELSE Parsed(t + Day)
    ELSE parse_today(p, t)

\* parse_time with `now` read as t (line 42)
parse_time(p, t) ==
    IF p.lead \in {"in", "after"} /\ p.parts >= 2 /\ p.amount # NoAmount
       /\ p.unit # "other"
    THEN IF Overflows(p.amount, p.unit)
         THEN Raised
         ELSE Parsed(t + p.amount * UnitSeconds(p.unit))
    ELSE parse_tomorrow(p, t)

-----------------------------------------------------------------------------
(* The time phrases and the clock readings the model draws from *)

Phrases ==
    {Relative("in", 0, "sec"), Relative("after", 1, "sec"),
     Relative("in", DaysLeft + 1, "day"), Absolute(1)}

\* a later reading of the clock, the first having read t: the same second or
\* the next (the model stops at MaxTime)
Readings(t) == {u \in {t, t + 1} : u <= MaxTime}

-----------------------------------------------------------------------------
(* The job store *)

Job(seq, rid, uid, content, run_date) ==
    [seq |-> seq, id |-> rid, user_id |-> uid, content |-> content,
     run_date |-> run_date]

JobsOf(store, rid) == {j \in store : j.id = rid}

\* add_job, had it left the job of the same id in the store
add_job_dup(store, job) == store \cup {job}

\* add_job, had it kept the job the id has and dropped the new one
add_job_keep(store, job) ==
    IF JobsOf(store, job.id) # {} THEN store ELSE store \cup {job}

\* scheduler.add_job(..., id=job_id, replace_existing=True)
add_job(store, job) == (store \ JobsOf(store, job.id)) \cup {job}

\* remove_job, had it left the job in the store
remove_job_none(store, rid) == store

\* scheduler.remove_job(job_id); raises JobLookupError when there is no job
remove_job(store, rid) == store \ JobsOf(store, rid)

-----------------------------------------------------------------------------
(* ReminderScheduler.schedule_reminder and cancel_reminder *)

\* the result of the except clause; error is the text of the "error" key: the
\* exception, the message about the past, or none
Failure ==
    [success |-> FALSE, parsed_time |-> NoTime, resolved |-> NoTime,
     error |-> "exception"]

\* schedule_reminder, had it also rejected a time equal to the clock
schedule_result_le(p, t1, t2) ==
    LET r == parse_time(p, t1)
    IN  IF ~r.ok THEN Failure
        ELSE IF r.time <= t2
             THEN [success |-> FALSE, parsed_time |-> NoTime, resolved |-> r.time,
                   error |-> "past"]
             ELSE [success |-> TRUE, parsed_time |-> r.time, resolved |-> r.time,
                   error |-> "none"]

\* schedule_reminder, had the except clause returned without an error text
schedule_result_drop(p, t1, t2) ==
    LET r == parse_time(p, t1)
    IN  IF ~r.ok THEN [Failure EXCEPT !.error = "none"]
        ELSE IF r.time < t2
             THEN [success |-> FALSE, parsed_time |-> NoTime, resolved |-> r.time,
                   error |-> "past"]
             ELSE [success |-> TRUE, parsed_time |-> r.time, resolved |-> r.time,
                   error |-> "none"]

\* what the call returns: parse_time reads the clock as t1, the check against
\* the past reads it as t2
schedule_result(p, t1, t2) ==
    LET r == parse_time(p, t1)
    IN  IF ~r.ok THEN Failure
        ELSE IF r.time < t2
             THEN [success |-> FALSE, parsed_time |-> NoTime, resolved |-> r.time,
                   error |-> "past"]
             ELSE [success |-> TRUE, parsed_time |-> r.time, resolved |-> r.time,
                   error |-> "none"]

\* the job store, had a rejected call taken the pending job of the id away
schedule_jobs_clear(store, res, seq, rid, uid, content) ==
    IF res.success
    THEN add_job(store, Job(seq, rid, uid, content, res.parsed_time))
    ELSE remove_job(store, rid)

\* the job store after the call
schedule_jobs(store, res, seq, rid, uid, content) ==
    IF res.success
    THEN add_job(store, Job(seq, rid, uid, content, res.parsed_time))
    ELSE store

\* schedule_reminder as a step: the clock and the store
schedule_reminder(rid, uid, content, p, t2) ==
    LET res == schedule_result(p, now, t2)
    IN  /\ res.success => nextSeq <= MaxJobs
        /\ now' = t2
        /\ jobs' = schedule_jobs(jobs, res, nextSeq, rid, uid, content)
        /\ nextSeq' = IF res.success THEN nextSeq + 1 ELSE nextSeq

\* a caller re-schedules a reminder it holds the row of
reschedule(rid, content, p, t2) ==
    /\ db[rid].exists
    /\ schedule_reminder(rid, db[rid].user_id, content, p, t2)
    /\ UNCHANGED <<running, db>>

\* cancel_reminder, had it returned True whatever remove_job did
cancel_result_true(store, rid) == TRUE

\* cancel_reminder returns True when remove_job found the job
cancel_result(store, rid) == JobsOf(store, rid) # {}

cancel_reminder(rid) ==
    /\ jobs' = remove_job(jobs, rid)
    /\ UNCHANGED <<now, running, db, nextSeq>>

\* scheduler.get_jobs(): the jobs of the store, by next run time
RECURSIVE get_jobs(_)
get_jobs(store) ==
    IF store = {} THEN <<>>
    ELSE LET first == CHOOSE j \in store : \A k \in store :
                          \/ j.run_date < k.run_date
                          \/ j.run_date = k.run_date /\ j.seq <= k.seq
         IN  <<first>> \o get_jobs(store \ {first})

\* the entry get_scheduled_reminders makes of a job
Entry(j) ==
    [job_id |-> j.id, next_run |-> j.run_date,
     args |-> <<j.user_id, j.content, j.id>>]

get_scheduled_reminders(store) ==
    [k \in 1..Cardinality(store) |-> Entry(get_jobs(store)[k])]

-----------------------------------------------------------------------------
(* TelegramBot.create_reminder_from_message, from the extracted content and *)
(* time_str on                                                              *)

Row(uid, content, t) ==
    [exists |-> TRUE, user_id |-> uid, content |-> content, reminder_time |-> t,
     sent |-> FALSE, completed |-> FALSE]

\* the id the table gives a new row: SQLite's rowid, one past the largest
NewId(table) ==
    LET used == {i \in Ids : table[i].exists}
    IN  IF used = {} THEN 1 ELSE (CHOOSE i \in used : \A k \in used : k <= i) + 1

\* the handler, had it left the row of a rejected reminder in the table
submit_db_keep(table, rid, uid, content, res) ==
    [table EXCEPT ![rid] = Row(uid, content,
                               IF res.success THEN res.parsed_time ELSE NoTime)]

\* the handler, had it deleted the row whatever schedule_reminder returned
submit_db_drop(table, rid, uid, content, res) ==
    [table EXCEPT ![rid] = NoRow]

\* the table when the handler returns
submit_db(table, rid, uid, content, res) ==
    IF res.success
    THEN [table EXCEPT ![rid] = Row(uid, content, res.parsed_time)]
    ELSE [table EXCEPT ![rid] = NoRow]

\* the reply: stored is FALSE when vector_store.add_reminder or the reply
\* raised after the reminder was scheduled
submit_reply(res, stored) ==
    IF res.success
    THEN IF stored THEN "scheduled" ELSE "sorry"
    ELSE "unparsed"

create_reminder_from_message(uid, content, p, t2) ==
    LET rid == NewId(db)
    IN  /\ rid \in Ids
        /\ schedule_reminder(rid, uid, content, p, t2)
        /\ db' = submit_db(db, rid, uid, content, schedule_result(p, now, t2))
        /\ UNCHANGED running

-----------------------------------------------------------------------------
(* The scheduler thread and the worker threads *)

Exec(j, pc) ==
    [seq |-> j.seq, id |-> j.id, user_id |-> j.user_id, content |-> j.content,
     run_date |-> j.run_date, pc |-> pc]

\* the scheduler thread, had it left a job it runs in the store
Fire_keep(j) ==
    /\ j \in jobs
    /\ now >= j.run_date
    /\ Exec(j, "queued") \notin running
    /\ running' = running \cup {Exec(j, "queued")}
    /\ UNCHANGED <<now, jobs, db, nextSeq>>

\* the executor runs one instance of a job id at a time (the scheduler is
\* given no job defaults, so max_instances is 1): while a callback of the id
\* is with a worker the run of a due job of that id is refused
Refused(j) == \E e \in running : e.id = j.id

\* the scheduler thread, had it run a job without a look at its run_date
Fire_early(j) ==
    /\ j \in jobs
    /\ jobs' = jobs \ {j}
    /\ running' = IF Refused(j) THEN running
                  ELSE running \cup {Exec(j, "queued")}
    /\ UNCHANGED <<now, db, nextSeq>>

\* the scheduler thread, had the executor run any number of instances of an id
Fire_all(j) ==
    /\ j \in jobs
    /\ now >= j.run_date
    /\ jobs' = jobs \ {j}
    /\ running' = running \cup {Exec(j, "queued")}
    /\ UNCHANGED <<now, db, nextSeq>>

\* the scheduler thread: a job whose run_date has come is handed to a worker,
\* unless the executor refuses the run, and, having no next run time, removed
\* from the store
Fire(j) ==
    /\ j \in jobs
    /\ now >= j.run_date
    /\ jobs' = jobs \ {j}
    /\ running' = IF Refused(j) THEN running
                  ELSE running \cup {Exec(j, "queued")}
    /\ UNCHANGED <<now, db, nextSeq>>

\* a worker calls reminder_callback: send_reminder_sync, up to the send
send_reminder_sync(e) ==
    /\ e \in running
    /\ e.pc = "queued"
    /\ running' = (running \ {e}) \cup {[e EXCEPT !.pc = "send"]}
    /\ UNCHANGED <<now, jobs, db, nextSeq>>

\* send_reminder_async: bot.send_message returned
SendOk(e) ==
    /\ e \in running
    /\ e.pc = "send"
    /\ running' = (running \ {e}) \cup {[e EXCEPT !.pc = "mark"]}
    /\ UNCHANGED <<now, jobs, db, nextSeq>>

\* the row once the callback has marked the reminder as sent
mark_sent(table, rid) ==
    IF table[rid].exists
    THEN [table EXCEPT ![rid].sent = TRUE, ![rid].completed = TRUE]
    ELSE table

\* a failed send, had the callback been queued again for it
SendFail_retry(e) ==
    /\ e \in running
    /\ e.pc = "send"
    /\ running' = (running \ {e}) \cup {[e EXCEPT !.pc = "queued"]}
    /\ UNCHANGED <<now, jobs, db, nextSeq>>

\* a failed send, had the row been marked as sent all the same
SendFail_mark(e) ==
    /\ e \in running
    /\ e.pc = "send"
    /\ running' = running \ {e}
    /\ db' = mark_sent(db, e.id)
    /\ UNCHANGED <<now, jobs, nextSeq>>

\* send_reminder_async: bot.send_message (or the event loop) raised; the error
\* is logged and the callback returns
SendFail(e) ==
    /\ e \in running
    /\ e.pc = "send"
    /\ running' = running \ {e}
    /\ UNCHANGED <<now, jobs, db, nextSeq>>

\* send_reminder_async: the reminder is marked as sent and committed
MarkSent(e) ==
    /\ e \in running
    /\ e.pc = "mark"
    /\ running' = running \ {e}
    /\ db' = mark_sent(db, e.id)
    /\ UNCHANGED <<now, jobs, nextSeq>>

\* a failed write, had the callback been queued again for it
MarkError_retry(e) ==
    /\ e \in running
    /\ e.pc = "mark"
    /\ running' = (running \ {e}) \cup {[e EXCEPT !.pc = "queued"]}
    /\ UNCHANGED <<now, jobs, db, nextSeq>>

\* send_reminder_async: the query or the commit raised; rollback
MarkError(e) ==
    /\ e \in running
    /\ e.pc = "mark"
    /\ running' = running \ {e}
    /\ UNCHANGED <<now, jobs, db, nextSeq>>

-----------------------------------------------------------------------------
(* The process and the clock *)

\* the jobs a new ReminderScheduler starts with: BackgroundScheduler's store
\* is in memory and __init__ adds nothing to it
StartJobs(table) == {}

\* the process stops and main() runs again: TelegramBot.__init__
Restart ==
    /\ jobs' = StartJobs(db)
    /\ running' = {}
    /\ UNCHANGED <<now, db, nextSeq>>

AdvanceClock ==
    /\ now < MaxTime
    /\ now' = now + 1
    /\ UNCHANGED <<jobs, running, db, nextSeq>>

InitSys ==
    /\ now = 0
    /\ jobs = StartJobs([i \in Ids |-> NoRow])
    /\ running = {}
    /\ db = [i \in Ids |-> NoRow]
    /\ nextSeq = 1

-----------------------------------------------------------------------------
(* History of one job: what became of it after add_job installed it *)

NoWatch ==
    [seq |-> 0, id |-> 0, user_id |-> "", content |-> "", had |-> FALSE,
     state |-> "none", again |-> FALSE, invoked |-> 0, sends |-> <<>>,
     early |-> FALSE, logged |-> FALSE, killed |-> FALSE, cancel |-> "none",
     unmarked |-> FALSE]

\* the job a successful call installs; had: the id had a pending job
Watched(seq, rid, uid, content, had) ==
    [NoWatch EXCEPT !.seq = seq, !.id = rid, !.user_id = uid,
                    !.content = content, !.had = had, !.state = "pending"]

\* a later call for the id of the watched job
AfterCall(rid, res) ==
    IF watch.seq # 0 /\ watch.id = rid /\ res.success
    THEN IF watch.state = "pending"
         THEN [watch EXCEPT !.state = "replaced"]
         ELSE [watch EXCEPT !.again = TRUE]
    ELSE watch

\* take: the job this call installs is the one to follow
WatchCall(take, rid, uid, content, res) ==
    IF take /\ watch.seq = 0 /\ res.success
    THEN Watched(nextSeq, rid, uid, content, JobsOf(jobs, rid) # {})
    ELSE AfterCall(rid, res)

\* cancel_reminder(rid) returned: the result is kept while the watched job is
\* the last one installed for its id
WatchCancel(rid) ==
    IF watch.seq = 0 \/ watch.id # rid THEN watch
    ELSE IF watch.state = "pending"
         THEN [watch EXCEPT !.state = "cancelled", !.cancel = "true"]
         ELSE IF watch.state = "fired" /\ ~watch.again
              THEN [watch EXCEPT !.cancel =
                        IF cancel_result(jobs, rid) THEN "true" ELSE "false"]
              ELSE watch

\* a job that was cancelled or replaced stays so in the history; skipped: the
\* executor refused the run of the job
WatchFire(j) ==
    IF j.seq = watch.seq /\ watch.state = "pending"
    THEN [watch EXCEPT !.state = IF Refused(j) THEN "skipped" ELSE "fired"]
    ELSE watch

\* early: the callback is invoked before the run_date of its job
WatchInvoke(e) ==
    IF e.seq = watch.seq
    THEN [watch EXCEPT !.invoked = @ + 1, !.early = @ \/ now < e.run_date]
    ELSE watch

WatchSend(e) ==
    IF e.seq = watch.seq
    THEN [watch EXCEPT !.sends =
              Append(@, [user_id |-> e.user_id, content |-> e.content])]
    ELSE watch

WatchLog(e) ==
    IF e.seq = watch.seq THEN [watch EXCEPT !.logged = TRUE] ELSE watch

\* unmarked: the write that marks the row failed after the send
WatchUnmarked(e) ==
    IF e.seq = watch.seq THEN [watch EXCEPT !.unmarked = TRUE] ELSE watch

WatchRestart ==
    IF watch.seq = 0 THEN watch
    ELSE IF watch.state = "pending" THEN [watch EXCEPT !.state = "lost"]
         ELSE IF \E e \in running : e.seq = watch.seq
              THEN [watch EXCEPT !.killed = TRUE]
              ELSE watch

\* whether the job a call installs may be the one to follow
Takes == IF watch.seq = 0 THEN BOOLEAN ELSE {FALSE}

\* the execution of the watched job is with a worker
InFlight == \E e \in running : e.seq = watch.seq

-----------------------------------------------------------------------------
(* History of the last call: what it was given and what it returned *)

NoCall ==
    [op |-> "none", id |-> 0, user_id |-> "", content |-> "",
     read |-> NoTime, success |-> FALSE,
     parsed_time |-> NoTime, resolved |-> NoTime, error |-> "none",
     had |-> FALSE, reply |-> "none"]

Called(op, rid, uid, content, t2, res, reply) ==
    [op |-> op, id |-> rid, user_id |-> uid, content |-> content,
     read |-> t2, success |-> res.success,
     parsed_time |-> res.parsed_time, resolved |-> res.resolved,
     error |-> res.error, had |-> JobsOf(jobs, rid) # {}, reply |-> reply]

Cancelled(rid) ==
    [NoCall EXCEPT !.op = "cancel", !.id = rid,
                   !.success = cancel_result(jobs, rid),
                   !.had = JobsOf(jobs, rid) # {}]

Restarted == [NoCall EXCEPT !.op = "restart"]

-----------------------------------------------------------------------------
(* The system with the history of a job *)

Init ==
    /\ InitSys
    /\ watch = NoWatch
    /\ last = NoCall
    /\ delivered = {}

SubmitStep ==
    \E p \in Phrases, t2 \in Readings(now), take \in Takes :
        /\ create_reminder_from_message(Submitter(NewId(db)), Message, p, t2)
        /\ watch' = WatchCall(take, NewId(db), Submitter(NewId(db)), Message,
                              schedule_result(p, now, t2))
        /\ UNCHANGED <<last, delivered>>

RescheduleStep ==
    \E i \in Ids, p \in Phrases, t2 \in Readings(now), take \in Takes :
        /\ reschedule(i, Correction, p, t2)
        /\ watch' = WatchCall(take, i, db[i].user_id, Correction,
                              schedule_result(p, now, t2))
        /\ UNCHANGED <<last, delivered>>

CancelStep ==
    \E i \in Ids :
        cancel_reminder(i) /\ watch' = WatchCancel(i) /\ UNCHANGED <<last, delivered>>

FireStep ==
    \E j \in jobs :
        Fire(j) /\ watch' = WatchFire(j) /\ UNCHANGED <<last, delivered>>

InvokeStep ==
    \E e \in running :
        send_reminder_sync(e) /\ watch' = WatchInvoke(e) /\ UNCHANGED <<last, delivered>>

SendOkStep ==
    \E e \in running :
        SendOk(e) /\ watch' = WatchSend(e) /\ UNCHANGED <<last, delivered>>

SendFailStep ==
    \E e \in running :
        SendFail(e) /\ watch' = WatchLog(e) /\ UNCHANGED <<last, delivered>>

MarkSentStep ==
    \E e \in running : MarkSent(e) /\ UNCHANGED <<watch, last, delivered>>

MarkErrorStep ==
    \E e \in running :
        MarkError(e) /\ watch' = WatchUnmarked(e) /\ UNCHANGED <<last, delivered>>

RestartStep == Restart /\ watch' = WatchRestart /\ UNCHANGED <<last, delivered>>

ClockStep == AdvanceClock /\ UNCHANGED <<watch, last, delivered>>

\* one run of the process
NextRun ==
    \/ SubmitStep
    \/ RescheduleStep
    \/ CancelStep
    \/ FireStep
    \/ InvokeStep
    \/ SendOkStep
    \/ SendFailStep
    \/ MarkSentStep
    \/ MarkErrorStep
    \/ ClockStep

Next ==
    \/ NextRun
    \/ RestartStep

Spec == Init /\ [][Next]_vars

\* one run of the process in which time passes, the scheduler thread wakes up
\* for a job that is due and a worker runs every job handed to it
SpecRun ==
    /\ Init
    /\ [][NextRun]_vars
    /\ WF_vars(ClockStep)
    /\ WF_vars(FireStep)
    /\ WF_vars(InvokeStep)

-----------------------------------------------------------------------------
(* The system with the history of the last call *)

NextCall ==
    \/ \E p \in Phrases, t2 \in Readings(now), stored \in BOOLEAN :
          /\ create_reminder_from_message(Submitter(NewId(db)), Message, p, t2)
          /\ last' = Called("submit", NewId(db), Submitter(NewId(db)), Message,
                            t2, schedule_result(p, now, t2),
                            submit_reply(schedule_result(p, now, t2), stored))
          /\ UNCHANGED <<watch, delivered>>
    \/ \E i \in Ids, p \in Phrases, t2 \in Readings(now) :
          /\ reschedule(i, Correction, p, t2)
          /\ last' = Called("schedule", i, db[i].user_id, Correction, t2,
                            schedule_result(p, now, t2), "none")
          /\ UNCHANGED <<watch, delivered>>
    \/ \E i \in Ids :
          /\ cancel_reminder(i)
          /\ last' = Cancelled(i)
          /\ UNCHANGED <<watch, delivered>>
    \/ \E j \in jobs :
          Fire(j) /\ last' = NoCall /\ UNCHANGED <<watch, delivered>>
    \/ \E e \in running :
          send_reminder_sync(e) /\ last' = NoCall /\ UNCHANGED <<watch, delivered>>
    \/ \E e \in running :
          SendOk(e) /\ last' = NoCall /\ UNCHANGED <<watch, delivered>>
    \/ \E e \in running :
          SendFail(e) /\ last' = NoCall /\ UNCHANGED <<watch, delivered>>
    \/ \E e \in running :
          MarkSent(e) /\ last' = NoCall /\ UNCHANGED <<watch, delivered>>
    \/ \E e \in running :
          MarkError(e) /\ last' = NoCall /\ UNCHANGED <<watch, delivered>>
    \/ Restart /\ last' = Restarted /\ UNCHANGED <<watch, delivered>>
    \/ AdvanceClock /\ last' = NoCall /\ UNCHANGED <<watch, delivered>>

SpecCall == Init /\ [][NextCall]_vars

-----------------------------------------------------------------------------
(* The system with the history of the sends *)

NextSend ==
    \/ \E p \in Phrases, t2 \in Readings(now) :
          /\ create_reminder_from_message(Submitter(NewId(db)), Message, p, t2)
          /\ UNCHANGED <<watch, last, delivered>>
    \/ \E i \in Ids, p \in Phrases, t2 \in Readings(now) :
          reschedule(i, Correction, p, t2) /\ UNCHANGED <<watch, last, delivered>>
    \/ \E i \in Ids :
          cancel_reminder(i) /\ UNCHANGED <<watch, last, delivered>>
    \/ \E j \in jobs :
          Fire(j) /\ UNCHANGED <<watch, last, delivered>>
    \/ \E e \in running :
          send_reminder_sync(e) /\ UNCHANGED <<watch, last, delivered>>
    \/ \E e \in running :
          /\ SendOk(e)
          /\ delivered' = delivered \cup {e.id}
          /\ UNCHANGED <<watch, last>>
    \/ \E e \in running :
          SendFail(e) /\ UNCHANGED <<watch, last, delivered>>
    \/ \E e \in running :
          MarkSent(e) /\ UNCHANGED <<watch, last, delivered>>
    \/ \E e \in running :
          MarkError(e) /\ UNCHANGED <<watch, last, delivered>>
    \/ Restart /\ UNCHANGED <<watch, last, delivered>>
    \/ AdvanceClock /\ UNCHANGED <<watch, last, delivered>>

SpecSend == Init /\ [][NextSend]_vars

-----------------------------------------------------------------------------
(* parse_time by itself: the phrases and the clock readings it is given *)

SecondWords ==
    {<<"s", "e", "c">>, <<"s", "e", "c", "s">>,
     <<"s", "e", "c", "o", "n", "d">>, <<"s", "e", "c", "o", "n", "d", "s">>}
MinuteWords ==
    {<<"m", "i", "n">>, <<"m", "i", "n", "s">>,
     <<"m", "i", "n", "u", "t", "e">>, <<"m", "i", "n", "u", "t", "e", "s">>}
HourWords ==
    {<<"h", "r">>, <<"h", "r", "s">>, <<"h", "o", "u", "r">>,
     <<"h", "o", "u", "r", "s">>}
DayWords == {<<"d", "a", "y">>, <<"d", "a", "y", "s">>}
WeekWords == {<<"w", "e", "e", "k">>, <<"w", "e", "e", "k", "s">>}
UnitWords ==
    SecondWords \cup MinuteWords \cup HourWords \cup DayWords \cup WeekWords

\* words that pass none of the unit tests
OtherWords == {<<"m">>, <<"y", "e", "a", "r", "s">>}

\* the numbers N; the one past datetime.max goes with days and weeks only
Amounts(unit) ==
    IF unit \in DayWords \cup WeekWords
    THEN {-1, 0, 2, 90, DaysLeft + 1}
    ELSE {-1, 0, 2, 90}

\* 3pm, as strptime reads "3pm"
ThreePm == 15 * Hour

\* readings of the clock around 3pm, at the end of a day and on the next day
ParseTimes ==
    {0, ThreePm - 1, ThreePm, ThreePm + 1, Day - 1, Day + ThreePm}

\* "in N unit" and "after N unit", by themselves or followed by "tomorrow"
RelativeInputs ==
    UNION {{[kind |-> "relative", lead |-> lead, n |-> n, unit |-> unit,
             phrase |-> RelativeText(lead, n, unit, tomorrow)] :
               lead \in {"in", "after"}, n \in Amounts(unit),
               tomorrow \in BOOLEAN} : unit \in UnitWords \cup OtherWords}

\* the other phrases: what parse_time can read of a time_str that is no
\* "in N unit": with or without "tomorrow", "today", "at", a time of day that
\* strptime reads after the "at", or a full date and time, and the phrases
\* that start with "in" without a number or without a unit
OtherPhrases ==
    {Phrase("none", 0, NoAmount, "other", tomorrow, today, at, tod, NoTime) :
        tomorrow \in BOOLEAN, today \in BOOLEAN, at \in {TRUE},
        tod \in {NoTime, ThreePm}}
    \cup {Phrase("none", 0, NoAmount, "other", tomorrow, today, FALSE, NoTime,
                 NoTime) : tomorrow \in BOOLEAN, today \in BOOLEAN}
    \cup {Phrase("none", 0, NoAmount, "other", FALSE, FALSE, FALSE, NoTime,
                 abs) : abs \in {Day, 3 * Day + 1}}
    \cup {Phrase("in", 2, NoAmount, "min", tomorrow, FALSE, FALSE, NoTime,
                 NoTime) : tomorrow \in BOOLEAN}
    \cup {Phrase("after", 1, 2, "other", tomorrow, FALSE, FALSE, NoTime,
                 NoTime) : tomorrow \in BOOLEAN}

OtherInputs ==
    {[kind |-> "other", lead |-> q.lead, n |-> q.amount, unit |-> <<>>,
      phrase |-> q] : q \in OtherPhrases}

\* the call parse_time(time_str) with the clock read as t, and what it gives
Resolved(x, t) ==
    [op |-> "parse_time", kind |-> x.kind, lead |-> x.lead, n |-> x.n,
     unit |-> x.unit, phrase |-> x.phrase, read |-> t,
     result |-> parse_time(x.phrase, t)]

InitParse ==
    /\ now \in ParseTimes
    /\ jobs = {}
    /\ running = {}
    /\ db = [i \in Ids |-> NoRow]
    /\ nextSeq = 1
    /\ watch = NoWatch
    /\ last = NoCall
    /\ delivered = {}

\* one call from the state InitParse sets up
ParseStep ==
    \E x \in RelativeInputs \cup OtherInputs :
        /\ last = NoCall
        /\ last' = Resolved(x, now)
        /\ UNCHANGED <<now, jobs, running, db, nextSeq, watch, delivered>>

\* the clock at line 170, read after parse_time has read it at line 42 as t
LaterReadings(t) == {t, t + 1, t + 3}

\* the call schedule_reminder(id, user, content, time_str) with the clock read
\* as t1 in parse_time and as t2 for the check against the past
Checked(x, t1, t2) ==
    [op |-> "schedule_reminder", kind |-> x.kind, lead |-> x.lead, n |-> x.n,
     unit |-> x.unit, phrase |-> x.phrase, read |-> t1, now |-> t2,
     result |-> schedule_result(x.phrase, t1, t2)]

CheckStep ==
    \E x \in RelativeInputs \cup OtherInputs, t2 \in LaterReadings(now) :
        /\ last = NoCall
        /\ last' = Checked(x, now, t2)
        /\ UNCHANGED <<now, jobs, running, db, nextSeq, watch, delivered>>

NextParse == ParseStep \/ CheckStep

SpecParse == InitParse /\ [][NextParse]_vars

-----------------------------------------------------------------------------
(* extract_reminder_from_text and detect_reminder_intent (src/bot.py).
   A text is the sequence of its characters. *)

\* \s and str.strip(): the whitespace of the texts is the blank
Space(c) == c = " "

\* str.lower(), on the capitals the texts use
lower_char(c) ==
    CASE c = "R" -> "r"
      [] c = "D" -> "d"
      [] c = "C" -> "c"
      [] OTHER -> c

lower(s) == [i \in 1..Len(s) |-> lower_char(s[i])]

RECURSIVE lstrip(_)
lstrip(s) == IF s # <<>> /\ Space(Head(s)) THEN lstrip(Tail(s)) ELSE s

RECURSIVE rstrip(_)
rstrip(s) ==
    IF s # <<>> /\ Space(s[Len(s)])
    THEN rstrip(SubSeq(s, 1, Len(s) - 1))
    ELSE s

\* str.strip()
strip(s) == rstrip(lstrip(s))

\* the literal lit stands in s at position i
At(s, i, lit) ==
    /\ i >= 1
    /\ i + Len(lit) - 1 <= Len(s)
    /\ SubSeq(s, i, i + Len(lit) - 1) = lit

\* the number of blanks of s from position i on
RECURSIVE Blanks(_, _)
Blanks(s, i) ==
    IF i >= 1 /\ i <= Len(s) /\ Space(s[i]) THEN 1 + Blanks(s, i + 1) ELSE 0

Least(S) == CHOOSE x \in S : \A y \in S : x <= y
Most(S) == CHOOSE x \in S : \A y \in S : x >= y

\* the literals of the patterns
Lit_remind_me_ == <<"r", "e", "m", "i", "n", "d", " ", "m", "e", " ">>
Lit_remind_me == <<"r", "e", "m", "i", "n", "d", " ", "m", "e">>
Lit_remind_me_to == <<"r", "e", "m", "i", "n", "d", " ", "m", "e", " ", "t", "o">>
Lit_to == <<"t", "o">>
Lit_after == <<"a", "f", "t", "e", "r">>
Lit_in == <<"i", "n">>
Lit_at == <<"a", "t">>
Lit_tomorrow == <<"t", "o", "m", "o", "r", "r", "o", "w">>
Lit_today == <<"t", "o", "d", "a", "y">>
Lit_next == <<"n", "e", "x", "t">>

\* (after|in) and (after|in|at|tomorrow|today|next), in the order of the
\* alternation, and the literals that end patterns 1 and 3
TimeWords == <<Lit_after, Lit_in, Lit_at, Lit_tomorrow, Lit_today, Lit_next>>

\* the one element of a set of one element; a value that is computed once is
\* written as the element of such a set
The(S) == CHOOSE x \in S : TRUE

\* the first alternative of words that stands in s at position i, 0 if none
WordAt(s, i, words) ==
    LET ks == {k \in 1..Len(words) : At(s, i, words[k])}
    IN  IF ks = {} THEN 0 ELSE Least(ks)

NoMatch == [found |-> FALSE, start |-> 0, groups |-> <<>>]

\* The three patterns share the shape
\*     pre (heads) \s+ (body) \s+ (mids) \s+ (.+)
\* where the body is lazy, of one character or more, and free of "t" and "o"
\* when plain is TRUE. With the head ending before position a, the lengths k3
\* of the third \s+ after a body that ends at e and a second \s+ of length
\* k2: one of mids follows, then the blanks, then a character or more
thirds(s, e, k2, mids) ==
    LET m == e + 1 + k2
        w == WordAt(s, m, mids)
    IN  IF w = 0 THEN {}
        ELSE {k3 \in 1..Blanks(s, m + Len(mids[w])) :
                 m + Len(mids[w]) + k3 <= Len(s)}

\* the ways <<k1, e, k2>> the first \s+, the body and the second \s+ match
ways(s, a, plain, mids) ==
    UNION {{<<k1, e, k2>> :
               k1 \in {k \in 1..Blanks(s, a) :
                          /\ a + k <= e
                          /\ plain =>
                                 \A j \in (a + k)..e : s[j] \notin {"t", "o"}},
               k2 \in {k \in 1..Blanks(s, e + 1) :
                          thirds(s, e, k, mids) # {}}} : e \in a..Len(s)}

\* the backtracking of re tries the longest first \s+ first, with it the
\* shortest body, and with these the longest second \s+
tried_before(w, v) ==
    \/ w[1] > v[1]
    \/ w[1] = v[1] /\ w[2] < v[2]
    \/ w[1] = v[1] /\ w[2] = v[2] /\ w[3] >= v[3]

first_way(W) == CHOOSE w \in W : \A v \in W : tried_before(w, v)

\* the groups of the match: head, body, the one of mids, and .+ which takes
\* the rest of the text after the longest third \s+
groups_of(s, a, head, mids, w) ==
    LET m == w[2] + 1 + w[3]
        mid == mids[WordAt(s, m, mids)]
        k3 == Most(thirds(s, w[2], w[3], mids))
    IN  <<head, SubSeq(s, a + w[1], w[2]), mid,
          SubSeq(s, m + Len(mid) + k3, Len(s))>>

\* one attempt of re.search, at position i
match_at(s, i, pre, heads, plain, mids) ==
    IF ~At(s, i, pre) \/ WordAt(s, i + Len(pre), heads) = 0 THEN NoMatch
    ELSE The({IF ways(s, a, plain, mids) = {} THEN NoMatch
              ELSE The({[found |-> TRUE, start |-> i,
                         groups |-> groups_of(s, a, head, mids, w)] :
                           w \in {first_way(ways(s, a, plain, mids))}}) :
                <<head, a>> \in
                    {<<heads[h], i + Len(pre) + Len(heads[h])>> :
                        h \in {WordAt(s, i + Len(pre), heads)}}})

\* re.search: the attempt at the leftmost position that matches
search(s, pre, heads, plain, mids) ==
    LET found == {m \in {match_at(s, i, pre, heads, plain, mids) :
                            i \in 1..Len(s)} : m.found}
    IN  IF found = {} THEN NoMatch
        ELSE CHOOSE m \in found : \A o \in found : m.start <= o.start

\* the three groups that a pattern captures of the four parts of its match
captured(m, a, b, c) ==
    IF m.found
    THEN [found |-> TRUE, groups |-> <<m.groups[a], m.groups[b], m.groups[c]>>]
    ELSE [found |-> FALSE, groups |-> <<>>]

\* lines 158-165: the three patterns
patterns(s) ==
    << The({captured(m, 1, 2, 4) :
               m \in {search(s, Lit_remind_me_, <<Lit_after, Lit_in>>, TRUE,
                             <<Lit_to>>)}}),
       The({captured(m, 2, 3, 4) :
               m \in {search(s, Lit_remind_me_to, <<<<>>>>, FALSE,
                             TimeWords)}}),
       The({captured(m, 1, 2, 4) :
               m \in {search(s, <<>>, <<Lit_after, Lit_in>>, TRUE,
                             <<Lit_remind_me_to>>)}}) >>

\* line 175 and 179: the words that mark a group as the time keyword
TimeKeywords ==
    {Lit_after, Lit_in, Lit_at, Lit_tomorrow, Lit_today, Lit_next}

\* f"{a} {b}"
joined(a, b) == a \o <<" ">> \o b

NoResult == [found |-> FALSE, content |-> <<>>, time_str |-> <<>>, tier |-> 0]

\* the groups told apart without a look at the first one
structured_second(groups) ==
    IF groups[2] \in TimeKeywords
    THEN [found |-> TRUE, content |-> strip(groups[1]),
          time_str |-> strip(joined(groups[2], groups[3])), tier |-> 1]
    ELSE NoResult

\* lines 174-187: which group is the content and which the time
structured(groups) ==
    IF groups[1] \in TimeKeywords
    THEN [found |-> TRUE, content |-> strip(groups[3]),
          time_str |-> strip(joined(groups[1], groups[2])), tier |-> 1]
    ELSE IF groups[2] \in TimeKeywords
         THEN [found |-> TRUE, content |-> strip(groups[1]),
               time_str |-> strip(joined(groups[2], groups[3])), tier |-> 1]
         ELSE NoResult

\* lines 167-187: the first pattern that matches and tells its groups apart
RECURSIVE first_pattern(_, _)
first_pattern(ms, k) ==
    IF k > Len(ms) THEN NoResult
    ELSE IF ms[k].found /\ structured(ms[k].groups).found
         THEN structured(ms[k].groups)
         ELSE first_pattern(ms, k + 1)

\* re.sub(r'^(a|b|...)\s*', '', s): the first alternative that starts s is
\* cut off with the blanks after it
cut_prefix(s, words) ==
    LET w == WordAt(s, 1, words)
    IN  IF w = 0 THEN s
        ELSE SubSeq(s, Len(words[w]) + 1 + Blanks(s, Len(words[w]) + 1), Len(s))


\* line 190: the keywords of the split, in the order they are tried
SplitKeywords ==
    <<<<" ", "a", "f", "t", "e", "r", " ">>,
      <<" ", "i", "n", " ">>,
      <<" ", "a", "t", " ">>,
      <<" ", "t", "o", "m", "o", "r", "r", "o", "w", " ">>,
      <<" ", "t", "o", "d", "a", "y", " ">>>>

\* line 201 and line 211: the prefixes that are cut off
SplitPrefixes ==
    <<Lit_remind_me_to, Lit_remind_me,
      <<"s", "e", "t", " ", "a", " ", "r", "e", "m", "i", "n", "d", "e", "r", " ", "t", "o">>,
      <<"r", "e", "m", "i", "n", "d", "e", "r", " ", "t", "o">>>>
WholePrefixes == <<Lit_remind_me_to, Lit_remind_me>>

\* str.find: the leftmost position of key in s, 0 if there is none
find(s, key) ==
    LET at == {i \in 1..Len(s) : At(s, i, key)}
    IN  IF at = {} THEN 0 ELSE Least(at)

\* the split at the keyword that stands leftmost in the text, whichever it is
keyword_split_leftmost(s, k) ==
    LET hits == {find(s, SplitKeywords[i]) : i \in k..Len(SplitKeywords)} \ {0}
        idx == IF hits = {} THEN 0 ELSE Least(hits)
        before == strip(cut_prefix(strip(SubSeq(s, 1, idx - 1)),
                                   SplitPrefixes))
        after == strip(SubSeq(s, idx, Len(s)))
    IN  IF idx # 0 /\ before # <<>> /\ Len(before) > 3
        THEN [found |-> TRUE, content |-> before, time_str |-> after,
              tier |-> 2]
        ELSE NoResult

\* lines 190-207: the split at the first keyword with a prefix of more than
\* three characters
RECURSIVE keyword_split(_, _)
keyword_split(s, k) ==
    IF k > Len(SplitKeywords) THEN NoResult
    ELSE LET idx == find(s, SplitKeywords[k])
             before == strip(cut_prefix(strip(SubSeq(s, 1, idx - 1)),
                                        SplitPrefixes))
             after == strip(SubSeq(s, idx, Len(s)))
         IN  IF idx # 0 /\ before # <<>> /\ Len(before) > 3
             THEN [found |-> TRUE, content |-> before, time_str |-> after,
                   tier |-> 2]
             ELSE keyword_split(s, k + 1)

\* lines 209-213: the whole text, without a leading "remind me (to)"
whole_text(text) ==
    LET content == strip(cut_prefix(strip(lower(text)), WholePrefixes))
    IN  [found |-> TRUE,
         content |-> IF content # <<>> THEN content ELSE strip(text),
         time_str |-> <<"i", "n", " ", "1", " ", "h", "o", "u", "r">>, tier |-> 3]

\* lines 167-213: the three tiers, given the matches of the patterns
tiers(text, text_lower, ms) ==
    IF first_pattern(ms, 1).found THEN first_pattern(ms, 1)
    ELSE IF keyword_split(text_lower, 1).found
         THEN keyword_split(text_lower, 1)
         ELSE whole_text(text)

\* lines 147-213
extract_reminder_from_text(text) ==
    The({The({tiers(text, text_lower, ms) : ms \in {patterns(text_lower)}}) :
            text_lower \in {strip(lower(text))}})

\* \w of the texts: everything but the blank and the apostrophe
WordChar(s, i) == i >= 1 /\ i <= Len(s) /\ s[i] \notin {" ", "'"}

\* \b before position i
Boundary(s, i) == WordChar(s, i - 1) # WordChar(s, i)

\* \d
Digit(c) == c \in {"0", "1", "2", "3", "4", "5", "6", "7", "8", "9"}

RECURSIVE Digits(_, _)
Digits(s, i) ==
    IF i >= 1 /\ i <= Len(s) /\ Digit(s[i]) THEN 1 + Digits(s, i + 1) ELSE 0

\* re.search(r'\bphrase\b', s)
has_phrase(s, phrase) ==
    \E i \in 1..Len(s) :
        At(s, i, phrase) /\ Boundary(s, i) /\ Boundary(s, i + Len(phrase))

\* re.search(r'\bword \d+\b', s), word given with its blank
has_number_after(s, word) ==
    \E i \in 1..Len(s) :
        /\ At(s, i, word) /\ Boundary(s, i)
        /\ Digits(s, i + Len(word)) >= 1
        /\ Boundary(s, i + Len(word) + Digits(s, i + Len(word)))

\* lines 128-138: the phrases of the patterns, optional parts written out
IntentPhrases ==
    {<<"r", "e", "m", "i", "n", "d", " ", "m", "e">>,
     <<"s", "e", "t", " ", "r", "e", "m", "i", "n", "d", "e", "r">>,
     <<"s", "e", "t", " ", "a", " ", "r", "e", "m", "i", "n", "d", "e", "r">>,
     <<"r", "e", "m", "i", "n", "d", "e", "r", " ", "t", "o">>,
     <<"r", "e", "m", "i", "n", "d", "e", "r", " ", "f", "o", "r">>,
     <<"d", "o", "n", "'", "t", " ", "f", "o", "r", "g", "e", "t">>,
     <<"d", "o", "n", "t", " ", "f", "o", "r", "g", "e", "t">>,
     <<"t", "o", "m", "o", "r", "r", "o", "w", " ", "a", "t">>,
     <<"t", "o", "d", "a", "y", " ", "a", "t">>,
     <<"n", "e", "x", "t", " ", "w", "e", "e", "k">>,
     <<"n", "e", "x", "t", " ", "m", "o", "n", "t", "h">>,
     <<"n", "e", "x", "t", " ", "m", "o", "n", "d", "a", "y">>,
     <<"n", "e", "x", "t", " ", "t", "u", "e", "s", "d", "a", "y">>,
     <<"n", "e", "x", "t", " ", "w", "e", "d", "n", "e", "s", "d", "a", "y">>,
     <<"n", "e", "x", "t", " ", "t", "h", "u", "r", "s", "d", "a", "y">>,
     <<"n", "e", "x", "t", " ", "f", "r", "i", "d", "a", "y">>,
     <<"n", "e", "x", "t", " ", "s", "a", "t", "u", "r", "d", "a", "y">>,
     <<"n", "e", "x", "t", " ", "s", "u", "n", "d", "a", "y">>}


\* lines 120-145
detect_reminder_intent(text) ==
    LET text_lower == lower(text)
    IN  \/ \E phrase \in IntentPhrases : has_phrase(text_lower, phrase)
        \/ \E word \in {<<"a", "f", "t", "e", "r", " ">>, <<"i", "n", " ">>} :
               has_number_after(text_lower, word)

\* the texts of the messages: a leading phrase, what to be reminded of, a
\* time phrase and the blanks between them, put together in five orders
Leads ==
    {<<"r", "e", "m", "i", "n", "d", " ", "m", "e">>,
     <<"R", "e", "m", "i", "n", "d", " ", "m", "e">>,
     <<"d", "o", "n", "'", "t", " ", "f", "o", "r", "g", "e", "t">>,
     <<>>}

Says ==
    {<<"s", "t", "o", "p", " ", "s", "c", "r", "o", "l", "l", "i", "n", "g">>,
     <<"c", "a", "l", "l", " ", "m", "o", "m">>,
     <<"g", "o">>,
     <<"m", "e", "e", "t", "i", "n", "g">>,
     <<"n", "e", "x", "t">>,
     <<>>}

Times ==
    {<<"a", "f", "t", "e", "r", " ", "2", " ", "m", "i", "n">>,
     <<"i", "n", " ", "5", " ", "m", "i", "n">>,
     <<"a", "t", " ", "5">>,
     <<"t", "o", "m", "o", "r", "r", "o", "w", " ", "a", "t", " ", "3", "p", "m">>,
     <<"t", "o", "d", "a", "y", " ", "a", "t", " ", "3", "p", "m">>,
     <<"t", "o", "m", "o", "r", "r", "o", "w">>}

Texts ==
    UNION {{lead \o <<" ">> \o time \o gap \o Lit_to \o gap \o say,
            lead \o <<" ">> \o Lit_to \o gap \o say \o gap \o time,
            time \o <<" ">> \o lead \o <<" ">> \o Lit_to \o <<" ">> \o say,
            lead \o <<" ">> \o say \o gap \o time,
            lead \o <<" ">> \o say} :
               <<lead, say, time, gap>> \in
                   Leads \X Says \X Times \X {<<" ">>, <<" ", " ", " ">>}}

\* handle_message, lines 637-640: a text with a reminder intent goes to
\* create_reminder_from_message, whose first step (line 220) is the extractor
Extracted(text) ==
    The({[op |-> "extract", text |-> text,
          content |-> reminder_info.content,
          time_str |-> reminder_info.time_str,
          tier |-> reminder_info.tier] :
            reminder_info \in {extract_reminder_from_text(text)}})

\* a text without reminder intent is not given to the extractor
Ignored(text) == [op |-> "message", text |-> text]

\* update.message.text, line 631: the message that has come in
Received(text) == [op |-> "received", text |-> text]

\* str.split(): the words between the blanks
RECURSIVE split(_)
split(s) ==
    IF lstrip(s) = <<>> THEN <<>>
    ELSE LET t == lstrip(s)
             n == Least({i \in 1..(Len(t) + 1) : i > Len(t) \/ Space(t[i])})
         IN  <<SubSeq(t, 1, n - 1)>> \o split(SubSeq(t, n, Len(t)))

\* int(w) of a word of the texts: the number its digits write, NoAmount where
\* it raises ValueError, as it does for every word that is not all digits
RECURSIVE int(_)
int(w) ==
    IF w = <<>> \/ \E i \in 1..Len(w) : ~Digit(w[i]) THEN NoAmount
    ELSE LET d == CHOOSE k \in 0..9 :
                      <<"0", "1", "2", "3", "4", "5", "6", "7", "8", "9">>[k + 1]
                          = w[Len(w)]
         IN  IF Len(w) = 1 THEN d ELSE 10 * int(SubSeq(w, 1, Len(w) - 1)) + d

\* lines 93-95 and 115-117: datetime.strptime(w, fmt).time() under the first
\* format that reads w, as the second of the day, NoTime when every format
\* raises ValueError. %I%p and %I:%M%p read an hour of 1 to 12 with am or pm,
\* %H:%M and %H an hour of 0 to 23; what %I:%M reads, %H:%M has read before.
strptime(w) ==
    LET n == Digits(w, 1)
        h == int(SubSeq(w, 1, n))
        colon == n < Len(w) /\ w[n + 1] = ":"
        k == IF colon THEN Digits(w, n + 2) ELSE 0
        m == IF colon THEN int(SubSeq(w, n + 2, n + 1 + k)) ELSE 0
        p == SubSeq(w, IF colon THEN n + 2 + k ELSE n + 1, Len(w))
    IN  IF n \notin {1, 2} \/ (colon /\ (k \notin {1, 2} \/ m > 59)) THEN NoTime
        ELSE IF p \in {<<"a", "m">>, <<"p", "m">>} /\ h \in 1..12
        THEN ((h % 12) + IF p = <<"p", "m">> THEN 12 ELSE 0) * Hour + m * Minute
        ELSE IF p = <<>> /\ h \in 0..23
        THEN h * Hour + m * Minute
        ELSE NoTime

\* lines 90 and 112, and the replace of lines 95 and 117:
\* time_str.split("at")[1].strip().replace(" ", ""), what stands between the
\* first "at" and the next, without its blanks
time_part(s) ==
    LET rest == SubSeq(s, find(s, Lit_at) + Len(Lit_at), Len(s))
        part == IF find(rest, Lit_at) = 0 THEN rest
                ELSE SubSeq(rest, 1, find(rest, Lit_at) - 1)
    IN  SelectSeq(part, LAMBDA c : ~Space(c))

\* what parse_time reads of a time_str (line 43, lines 48-58, 85, 89, 110):
\* the texts have neither "-" nor "/", which every format of lines 135-138
\* asks for
read_phrase(time_str) ==
    LET s == strip(lower(time_str))
        lead == IF At(s, 1, Lit_in \o <<" ">>) THEN "in"
                ELSE IF At(s, 1, Lit_after \o <<" ">>) THEN "after"
                ELSE "none"
        parts == IF lead = "none" THEN <<>>
                 ELSE split(SubSeq(s, IF lead = "in" THEN 4 ELSE 7, Len(s)))
    IN  Phrase(lead, Len(parts),
               IF Len(parts) >= 1 THEN int(parts[1]) ELSE NoAmount,
               IF Len(parts) >= 2 THEN unit_of(parts[2]) ELSE "other",
               Has(s, Lit_tomorrow), Has(s, Lit_today), Has(s, Lit_at),
               IF Has(s, Lit_at) THEN strptime(time_part(s)) ELSE NoTime,
               NoTime)

\* create_reminder_from_message, line 243, and schedule_reminder, line 167:
\* the time_str of the extractor is given to parse_time
Timed(e, t) ==
    The({[op |-> "resolve", text |-> e.text, content |-> e.content,
          time_str |-> e.time_str, tier |-> e.tier, now |-> t,
          ok |-> reminder_time.ok, time |-> reminder_time.time] :
            reminder_time \in {parse_time(read_phrase(e.time_str), t)}})

\* a message comes in at midnight or just after three in the afternoon
MessageTimes == {0, ThreePm + 1}

InitExtract ==
    /\ now \in MessageTimes
    /\ jobs = {}
    /\ running = {}
    /\ db = [i \in Ids |-> NoRow]
    /\ nextSeq = 1
    /\ watch = NoWatch
    /\ last \in {Received(text) : text \in Texts}
    /\ delivered = {}

ExtractStep ==
    /\ last.op = "received"
    /\ detect_reminder_intent(last.text)
    /\ last' = Extracted(last.text)
    /\ UNCHANGED <<now, jobs, running, db, nextSeq, watch, delivered>>

MessageStep ==
    /\ last.op = "received"
    /\ ~detect_reminder_intent(last.text)
    /\ last' = Ignored(last.text)
    /\ UNCHANGED <<now, jobs, running, db, nextSeq, watch, delivered>>

ResolveStep ==
    /\ last.op = "extract"
    /\ last' = Timed(last, now)
    /\ UNCHANGED <<now, jobs, running, db, nextSeq, watch, delivered>>

NextExtract == ExtractStep \/ MessageStep \/ ResolveStep

SpecExtract == InitExtract /\ [][NextExtract]_vars

-----------------------------------------------------------------------------
(* The claims *)

\* C1: a reminder that schedule accepted and that was never cancelled (nor
\* replaced) is delivered to its owner exactly once, also when the callback
\* fails or the process restarts: once its job is no longer pending and no
\* execution of it is under way, exactly one send has returned for it.
C1_ExactlyOnce ==
    (/\ watch.seq # 0
     /\ watch.state \notin {"pending", "cancelled", "replaced"}
     /\ ~InFlight)
        => Len(watch.sends) = 1

\* C2: the store holds at most one job per reminder id, and after a
\* successful schedule the one job of the id is the job of that call.
C2_OneTimerPerId ==
    /\ \A j \in jobs : \A k \in jobs : j.id = k.id => j = k
    /\ (last.op \in {"submit", "schedule"} /\ last.success) =>
           \E j \in jobs :
               /\ JobsOf(jobs, last.id) = {j}
               /\ j.run_date = last.parsed_time

\* a successful schedule has replaced the pending job of its id
C2_Replaced == last.op = "schedule" /\ last.success /\ last.had

\* C3: the job a second successful schedule puts in the place of a pending
\* one is invoked at most once, not before its run_date, and sends the payload
\* of the second call; the job it replaced is never handed to a worker.
C3_Safe ==
    /\ watch.state = "replaced" => watch.invoked = 0 /\ ~InFlight
    /\ watch.had =>
           /\ watch.invoked <= 1
           /\ ~watch.early
           /\ Len(watch.sends) <= 1
           /\ \A k \in 1..Len(watch.sends) :
                  watch.sends[k] = [user_id |-> watch.user_id,
                                    content |-> watch.content]
           /\ (watch.state = "fired" /\ ~InFlight) => watch.invoked = 1

\* the run_date of the watched job lies beyond the times of the model
Beyond == \E j \in jobs : j.seq = watch.seq /\ j.run_date > MaxTime

\* C3: in one run of the process the replacing job, unless it is cancelled or
\* replaced in its turn, is invoked, exactly once; with C3_Safe. The claim is
\* of an id that is scheduled and scheduled again: a run the executor refuses
\* because the callback of an earlier firing of the id is still with a worker
\* is the case of C24.
C3_OnceAtT2 ==
    /\ []C3_Safe
    /\ (watch.had /\ watch.state = "pending")
           ~> (\/ watch.state \in {"cancelled", "replaced", "skipped"}
               \/ watch.invoked = 1
               \/ Beyond)

\* the replacing job has sent its reminder
C3_Delivered == watch.had /\ watch.invoked = 1 /\ Len(watch.sends) = 1

\* the last call was a schedule_reminder, direct or from the message handler
Scheduled == last.op \in {"submit", "schedule"}

\* C4: a call whose time could be resolved is rejected exactly when the
\* resolved time is earlier than the clock read at the check (an equal time
\* is accepted); a rejected call returns no time.
C4_Result ==
    /\ (Scheduled /\ last.resolved # NoTime) =>
           (~last.success <=> last.resolved < last.read)
    /\ (Scheduled /\ ~last.success) => last.parsed_time = NoTime
    /\ (Scheduled /\ last.success) => last.parsed_time = last.resolved

\* C4: schedule_reminder rejects exactly the times before the clock, returns
\* success False and no time then, and a rejected call leaves the job store
\* as it was.
C4_RejectsPast ==
    /\ []C4_Result
    /\ [][(last'.op \in {"submit", "schedule"} /\ ~last'.success)
              => jobs' = jobs]_vars

\* a time in the past was rejected for an id that has a pending job
C4_Rejected ==
    /\ last.op = "schedule"
    /\ ~last.success
    /\ last.resolved # NoTime
    /\ last.resolved < last.read
    /\ last.had
    /\ JobsOf(jobs, last.id) # {}

\* C5, C6: the cancel that has returned False has changed neither the
\* executions under way nor the table
CancelStepKeeps ==
    (watch'.cancel = "false" /\ watch.cancel # "false")
        => running' = running /\ db' = db /\ jobs' = jobs

\* C5: a job cancelled while pending is never handed to a worker and sends
\* nothing; a cancel after the job has fired returns False and changes neither
\* the execution nor the row.
C5_Cancel ==
    /\ [](watch.state = "cancelled" =>
              watch.invoked = 0 /\ watch.sends = <<>> /\ ~InFlight)
    /\ []((watch.state = "fired" /\ ~watch.again) => watch.cancel # "true")
    /\ [][CancelStepKeeps]_vars

\* a cancel after the firing returned False, and the reminder was sent and
\* marked as sent
C5_LateCancel ==
    /\ watch.cancel = "false"
    /\ Len(watch.sends) = 1
    /\ db[watch.id].exists /\ db[watch.id].sent

C7_SentAfterSend ==
    \A i \in Ids : (db[i].exists /\ db[i].sent) => i \in delivered

\* a row is marked as sent
C7_Marked == \E i \in Ids : db[i].exists /\ db[i].sent /\ db[i].completed

\* C8: the step in which the send of the watched job fails ends its
\* execution, installs no job and writes no row
FailStepStops ==
    (watch'.logged /\ ~watch.logged)
        => /\ jobs' = jobs
           /\ db' = db
           /\ ~(\E e \in running' : e.seq = watch.seq)

\* C8: when the send fails the error is logged and that is all: the callback
\* has run once and does not run again, no job is installed and the row is
\* not marked.
C8_NoRetry ==
    /\ [](watch.logged =>
              watch.invoked = 1 /\ watch.sends = <<>> /\ ~InFlight)
    /\ [][FailStepStops]_vars

\* the send of the only job a reminder had failed: no job, row not marked
C8_Failed ==
    /\ watch.logged
    /\ JobsOf(jobs, watch.id) = {}
    /\ db[watch.id].exists /\ ~db[watch.id].sent

C10_Reloaded ==
    last.op = "restart" =>
        \A i \in Ids :
            (db[i].exists /\ ~db[i].sent /\ db[i].reminder_time > now)
                => JobsOf(jobs, i) # {}

\* a delivered row stays delivered
SentStays ==
    \A i \in Ids :
        (db[i].exists /\ db[i].sent) => (db'[i].exists /\ db'[i].sent)

\* C11: a reminder id moves only along Pending -> Fired -> Delivered or
\* Pending -> Cancelled: an id whose row is marked as sent has no job in the
\* store and no execution under way, the id of a job that has fired is not
\* given a job again, no callback runs for the id of a cancelled job, and a
\* row marked as sent stays so.
C11_StateMachine ==
    /\ [](\A i \in Ids :
              (db[i].exists /\ db[i].sent) =>
                  /\ JobsOf(jobs, i) = {}
                  /\ ~(\E e \in running : e.id = i))
    /\ [](watch.state = "fired" => ~watch.again)
    /\ [](watch.state = "cancelled" =>
              /\ watch.invoked = 0
              /\ ~(\E e \in running : e.id = watch.id))
    /\ [][SentStays]_vars

\* what the row of reminder i records of its state, for a scan of the table:
\* the two flags, and whether its time has come
Recorded(i) ==
    [sent |-> db[i].sent, completed |-> db[i].completed,
     due |-> db[i].reminder_time <= now]

\* the watched job has fired and its execution is over or was killed, the
\* reminder is not marked as sent, and the id was not scheduled again
Orphan ==
    /\ watch.state = "fired"
    /\ ~InFlight
    /\ ~watch.again
    /\ db[watch.id].exists /\ ~db[watch.id].sent

\* C12: a reminder that fired without its delivery being completed is
\* recorded differently from every reminder that still has a pending job and
\* from every reminder that was delivered.
C12_OrphanObservable ==
    Orphan =>
        \A k \in Ids \ {watch.id} :
            (db[k].exists /\ (JobsOf(jobs, k) # {} \/ db[k].sent))
                => Recorded(k) # Recorded(watch.id)

\* C13: a cancel step takes the job of its id, and no other, from the store;
\* a second cancel of the same id with nothing in between returns False and
\* changes nothing
CancelStepRemoves ==
    /\ last'.op = "cancel" =>
           jobs' = {j \in jobs : j.id # last'.id}
    /\ (last.op = "cancel" /\ last'.op = "cancel" /\ last'.id = last.id) =>
           ~last'.success /\ jobs' = jobs

\* C13: cancel_reminder returns True exactly when the id had a job at the
\* call, and the id has no job afterwards; it is idempotent, and for an id
\* that was never scheduled it returns False.
C13_Cancel ==
    /\ [](last.op = "cancel" =>
              /\ last.success <=> last.had
              /\ JobsOf(jobs, last.id) = {}
              /\ ~db[last.id].exists => ~last.success)
    /\ [][CancelStepRemoves]_vars

\* a cancel has found the job of its id and returned True
C13_Removed ==
    /\ last.op = "cancel"
    /\ last.success
    /\ db[last.id].exists
    /\ jobs # {}

\* C14: the step of a schedule_reminder call installs a job exactly when the
\* call returns success, and then one job, for the id of the call
ScheduleStepInstalls ==
    last'.op \in {"submit", "schedule"} =>
        IF last'.success
        THEN /\ nextSeq' = nextSeq + 1
             /\ \E j \in jobs' :
                    /\ j.seq = nextSeq /\ j.id = last'.id
                    /\ j.run_date = last'.parsed_time
                    /\ jobs' = {k \in jobs : k.id # j.id} \cup {j}
        ELSE jobs' = jobs /\ nextSeq' = nextSeq

\* C14: every schedule_reminder call returns a result, also when resolving
\* the time raises: success with the resolved time and the job of the id
\* installed, or failure with an error text and no time, and no job installed.
C14_AlwaysResult ==
    /\ [](Scheduled =>
              IF last.success
              THEN /\ last.parsed_time # NoTime
                   /\ last.parsed_time = last.resolved
                   /\ last.error = "none"
              ELSE /\ last.parsed_time = NoTime
                   /\ last.error \in {"past", "exception"}
                   /\ last.error = "exception" <=> last.resolved = NoTime)
    /\ [][ScheduleStepInstalls]_vars

\* resolving the time raised, and the call returned failure with the error
C14_Raised ==
    /\ last.op = "schedule"
    /\ ~last.success
    /\ last.error = "exception"
    /\ last.had

\* the entries of the list that carry id i
EntriesOf(list, i) == {k \in 1..Len(list) : list[k].job_id = i}

\* C15: the step that hands a job to a worker takes its entry from the list
FiredLeavesList ==
    \A j \in jobs :
        (Exec(j, "queued") \in running' \ running) =>
            EntriesOf(get_scheduled_reminders(jobs'), j.id) = {}

\* C15: get_scheduled_reminders returns one entry for every job of the store
\* and nothing else; the entry of an id carries the time, the user and the
\* content of the last successful schedule_reminder for it; an id that was
\* cancelled or whose job has fired has no entry.
C15_Snapshot ==
    /\ [](LET list == get_scheduled_reminders(jobs)
          IN  /\ Len(list) = Cardinality(jobs)
              /\ \A k \in 1..Len(list) : \E j \in jobs : list[k] = Entry(j)
              /\ \A i \in Ids :
                     Cardinality(EntriesOf(list, i)) =
                         IF JobsOf(jobs, i) # {} THEN 1 ELSE 0
              /\ (Scheduled /\ last.success) =>
                     \E k \in 1..Len(list) :
                         list[k] = [job_id |-> last.id,
                                    next_run |-> last.parsed_time,
                                    args |-> <<last.user_id, last.content,
                                               last.id>>]
              /\ last.op = "cancel" => EntriesOf(list, last.id) = {})
    /\ [][FiredLeavesList]_vars

\* the list holds the entries of two reminders, the second just accepted
C15_TwoEntries ==
    /\ Len(get_scheduled_reminders(jobs)) = 2
    /\ last.op = "submit" /\ last.success

\* the seconds a unit word stands for
WordSeconds(unit) ==
    CASE unit \in SecondWords -> 1
      [] unit \in MinuteWords -> 60
      [] unit \in HourWords -> 60 * 60
      [] unit \in DayWords -> 24 * 60 * 60
      [] unit \in WeekWords -> 7 * 24 * 60 * 60

\* parse_time was given "in N unit" or "after N unit" with a unit word
RelativeCall ==
    /\ last.op = "parse_time"
    /\ last.kind = "relative"
    /\ ~last.phrase.tomorrow
    /\ last.unit \in UnitWords

TodayAt3pm ==
    /\ last.op = "parse_time"
    /\ last.phrase =
           Phrase("none", 0, NoAmount, "other", FALSE, TRUE, TRUE, ThreePm, NoTime)

\* 3pm of the day of the clock reading t
ThreePmOf(t) == (t \div (24 * 60 * 60)) * (24 * 60 * 60) + 15 * 60 * 60

\* C17, as claimed: "today at 3pm" resolves to today 15:00 when the clock is
\* before 15:00 and to tomorrow 15:00 when it is at or after 15:00.
C17_Rollover ==
    TodayAt3pm =>
        /\ last.result.ok
        /\ last.result.time =
               IF last.read < ThreePmOf(last.read)
               THEN ThreePmOf(last.read)
               ELSE ThreePmOf(last.read) + 24 * 60 * 60

\* C17, amended: "today at 3pm" resolves to today 15:00 when the clock is
\* before or exactly at 15:00, and to tomorrow 15:00 when it is after 15:00.
C17_RolloverStrict ==
    TodayAt3pm =>
        /\ last.result.ok
        /\ last.result.time =
               IF last.read <= ThreePmOf(last.read)
               THEN ThreePmOf(last.read)
               ELSE ThreePmOf(last.read) + 24 * 60 * 60

\* "today at 3pm" at exactly 15:00 has resolved to that very time
C17_Boundary ==
    /\ TodayAt3pm
    /\ last.read = ThreePmOf(last.read)
    /\ last.result.time = last.read

\* rule 1 of parse_time takes the phrase: "in" or "after", a number, a unit
RelativeForm(p) ==
    /\ p.lead \in {"in", "after"}
    /\ p.parts >= 2
    /\ p.amount # NoAmount
    /\ p.unit # "other"

\* the phrase has no "at" after which a time of day can be read
NoAtClause(p) == ~p.at \/ p.tod = NoTime

\* C18, as claimed: every phrase that contains "tomorrow" and has no "at"
\* clause resolves to the clock plus one day.
C18_Tomorrow ==
    (last.op = "parse_time" /\ last.phrase.tomorrow /\ NoAtClause(last.phrase))
        => /\ last.result.ok
           /\ last.result.time = last.read + 24 * 60 * 60

\* C18, amended: every phrase that contains "tomorrow", has no "at" clause
\* and is not an "in N unit" or "after N unit" phrase resolves to the clock
\* plus one day.
C18_TomorrowNotRelative ==
    (/\ last.op = "parse_time"
     /\ last.phrase.tomorrow
     /\ NoAtClause(last.phrase)
     /\ ~RelativeForm(last.phrase))
        => /\ last.result.ok
           /\ last.result.time = last.read + 24 * 60 * 60

\* a phrase with "tomorrow" and an "at" that no time of day follows has
\* resolved to the same time of the next day
C18_SameTime ==
    /\ last.op = "parse_time"
    /\ last.phrase.tomorrow /\ last.phrase.at /\ last.phrase.tod = NoTime
    /\ last.read = 15 * 60 * 60 + 1
    /\ last.result.time = last.read + 24 * 60 * 60

\* no rule of parse_time resolves the phrase
Unresolved(p) ==
    /\ ~RelativeForm(p)
    /\ ~p.tomorrow
    /\ ~(p.at /\ p.tod # NoTime)
    /\ p.abs = NoTime

\* C19: parse_time returns a time for every phrase, and the clock plus one
\* hour for a phrase that no rule resolves.
C19_NeverFails ==
    last.op = "parse_time" =>
        /\ last.result.ok
        /\ Unresolved(last.phrase) => last.result.time = last.read + 60 * 60

\* C20: for every text that reaches it, whichever tier answers, the content
\* that extract_reminder_from_text returns is not empty after trimming.
C20_ContentNotEmpty ==
    last.op = "extract" => strip(last.content) # <<>>


\* C21: the message "don't forget meeting tomorrow at 3pm" matches no
\* structured pattern and is split by tier 2 at "tomorrow": the content is
\* "don't forget meeting", the time phrase "tomorrow at 3pm", and the reminder
\* is resolved to 15:00 of the day after the message.
DontForgetMeeting ==
    <<"d", "o", "n", "'", "t", " ", "f", "o", "r", "g", "e", "t", " ",
      "m", "e", "e", "t", "i", "n", "g", " ">> \o Lit_tomorrow
        \o <<" ", "a", "t", " ", "3", "p", "m">>

C21_EndToEnd ==
    (last.op = "resolve" /\ last.text = DontForgetMeeting) =>
        /\ last.tier = 2
        /\ last.content = <<"d", "o", "n", "'", "t", " ", "f", "o", "r", "g",
                            "e", "t", " ", "m", "e", "e", "t", "i", "n", "g">>
        /\ last.time_str = Lit_tomorrow \o <<" ", "a", "t", " ", "3", "p", "m">>
        /\ last.ok
        /\ last.time = DayStart(last.now) + Day + ThreePm

\* C22: the message "remind me after 2 min to stop scrolling" matches the
\* first structured pattern: the content is "stop scrolling", the time phrase
\* "after 2 min", and the phrase resolves to 120 seconds after the clock
\* reading of the call.
RemindMeAfter ==
    Lit_remind_me_ \o Lit_after \o <<" ", "2", " ", "m", "i", "n", " ">>
        \o Lit_to \o <<" ", "s", "t", "o", "p", " ", "s", "c", "r", "o", "l",
                       "l", "i", "n", "g">>

C22_AfterTwoMin ==
    (last.op = "resolve" /\ last.text = RemindMeAfter) =>
        /\ patterns(strip(lower(last.text)))[1].found
        /\ last.tier = 1
        /\ last.content = <<"s", "t", "o", "p", " ", "s", "c", "r", "o", "l",
                            "l", "i", "n", "g">>
        /\ last.time_str = Lit_after \o <<" ", "2", " ", "m", "i", "n">>
        /\ last.ok
        /\ last.time = last.now + 2 * Minute

\* the message has gone through the extractor and parse_time in the afternoon
C22_Resolved ==
    last.op = "resolve" /\ last.text = RemindMeAfter /\ last.now = ThreePm + 1

\* C25: when no structured pattern gives the result, tier 2 tries " after ",
\* " in ", " at ", " tomorrow ", " today " in this order; the first of them
\* that occurs in the text and whose prefix (the text before its leftmost
\* occurrence, without a leading reminder phrase) has more than 3 characters
\* makes the prefix the content and the text from the keyword on the time
\* phrase; only when none qualifies does tier 3 give the text, without a
\* leading "remind me (to)", as content and "in 1 hour" as time phrase.
Tier2Keywords ==
    <<<<" ">> \o Lit_after \o <<" ">>, <<" ">> \o Lit_in \o <<" ">>,
      <<" ">> \o Lit_at \o <<" ">>, <<" ">> \o Lit_tomorrow \o <<" ">>,
      <<" ">> \o Lit_today \o <<" ">>>>

Tier2Prefix(s, k) ==
    strip(cut_prefix(strip(SubSeq(s, 1, find(s, Tier2Keywords[k]) - 1)),
                     SplitPrefixes))

Tier2Qualifies(s) ==
    {k \in 1..Len(Tier2Keywords) :
        find(s, Tier2Keywords[k]) # 0 /\ Len(Tier2Prefix(s, k)) > 3}

C25_KeywordOrder ==
    (last.op = "extract" /\ last.tier # 1) =>
        LET s == strip(lower(last.text))
            rest == strip(cut_prefix(s, WholePrefixes))
        IN  IF Tier2Qualifies(s) # {}
            THEN /\ last.tier = 2
                 /\ last.content = Tier2Prefix(s, Least(Tier2Qualifies(s)))
                 /\ last.time_str =
                        strip(SubSeq(s, find(s, Tier2Keywords[
                                                Least(Tier2Qualifies(s))]),
                                     Len(s)))
            ELSE /\ last.tier = 3
                 /\ last.time_str = <<"i", "n", " ", "1", " ", "h", "o", "u", "r">>
                 /\ last.content = IF rest # <<>> THEN rest
                                   ELSE strip(last.text)

\* a text split at " at " although " tomorrow " stands to the left of it
C25_LaterKeyword ==
    /\ last.op = "extract"
    /\ last.text = DontForgetMeeting
    /\ last.tier = 2
    /\ last.time_str = <<"a", "t", " ", "3", "p", "m">>

\* C23: the callback of a job is never invoked before the run_date of the job:
\* a pending job is taken by the scheduler thread only at a clock reading that
\* is not before its run_date, every execution with a worker is one of a job
\* whose run_date has come, and a pending job whose run_date has come does not
\* stay pending: it is run, unless it is cancelled or replaced first.
WatchedJob == {j \in jobs : j.seq = watch.seq}

C23_FireStep ==
    (watch.state = "pending" /\ watch'.state \in {"fired", "skipped"}) =>
        \A j \in WatchedJob : now >= j.run_date

C23_NotBeforeFireTime ==
    /\ [](~watch.early /\ \A e \in running : now >= e.run_date)
    /\ [][C23_FireStep]_vars
    /\ (watch.state = "pending" /\ \E j \in WatchedJob : now >= j.run_date)
           ~> (watch.state # "pending")

\* a job was run when its run_date had come and its callback was invoked
C23_FiredWhenDue ==
    watch.state = "fired" /\ watch.invoked = 1 /\ ~watch.early /\ now > 0

\* C24: a callback that is slow, blocked or failing for one id does not keep
\* a due job of another id from being run: a due job can be taken by the
\* scheduler thread whatever the workers are doing, taking it only hands it to
\* a worker (the send is a later step of the worker), callbacks of different
\* ids are under way at the same time, and two callbacks of the same id never
\* are.
OthersBusy == \E e \in running : e.id # watch.id

C24_HandOver ==
    (watch.state = "pending" /\ watch'.state = "fired") =>
        /\ watch'.invoked = 0 /\ watch'.sends = <<>>
        /\ \E e \in running' : e.seq = watch.seq /\ e.pc = "queued"
        /\ running \subseteq running'

C24_OffThread ==
    /\ [](/\ \A e1, e2 \in running : e1.id = e2.id => e1 = e2
          /\ \A j \in jobs : now >= j.run_date => ENABLED Fire(j))
    /\ [][C24_HandOver]_vars
    /\ (/\ watch.state = "pending"
        /\ \E j \in WatchedJob : now >= j.run_date /\ ~Refused(j)
        /\ OthersBusy)
           ~> (watch.state \in {"fired", "cancelled", "replaced"})

\* the callback of one id is with a worker, sending, while the job of another
\* id has been run and its callback invoked
C24_Overlap ==
    /\ watch.state = "fired" /\ watch.invoked = 1 /\ InFlight
    /\ \E e \in running : e.id # watch.id /\ e.pc = "send"

\* C26: whenever create_reminder_from_message has answered that the reminder
\* could not be created, with either of its two failure replies, the store
\* holds no job for the reminder of that message.
C26_NoTimerAfterFailure ==
    (last.op = "submit" /\ last.reply \in {"sorry", "unparsed"}) =>
        JobsOf(jobs, last.id) = {}

\* C27: in every state of the running process the reminders table has a row
\* for the id of every job of the store: the row is committed before
\* schedule_reminder is called and deleted only when the call was rejected
\* and installed no job.
C27_TimerHasRecord == \A j \in jobs : db[j.id].exists

\* a job is pending whose row holds the time schedule_reminder returned, and
\* the row of a rejected reminder is gone
C27_PendingWithRow ==
    /\ \E j \in jobs : db[j.id].exists /\ db[j.id].reminder_time = j.run_date
    /\ \E i \in Ids : ~db[i].exists
    /\ nextSeq > 1

\* C28: a schedule_reminder call that is rejected, for a time in the past or
\* for an exception, for an id that has a pending job leaves the job store as
\* it was: the job keeps its run_date and arguments, and the scheduler thread
\* can take it once it is due.
C28_Rejected == last.op = "schedule" /\ ~last.success /\ last.had

C28_RejectedStep ==
    (last'.op = "schedule" /\ ~last'.success /\ last'.had) =>
        jobs' = jobs /\ JobsOf(jobs', last'.id) # {}

C28_RejectedKeepsTimer ==
    /\ [][C28_RejectedStep]_vars
    /\ [](C28_Rejected =>
             \E j \in JobsOf(jobs, last.id) :
                 now >= j.run_date => ENABLED Fire(j))

\* a call for an id with a pending job was rejected for a time in the past
C28_RejectedPast == C28_Rejected /\ last.error = "past"

\* schedule_reminder was given "in N unit" or "after N unit", N not negative
RelativeChecked ==
    /\ last.op = "schedule_reminder"
    /\ last.kind = "relative"
    /\ ~last.phrase.tomorrow
    /\ last.unit \in UnitWords
    /\ last.n >= 0

\* schedule_reminder was given an "at" or "today at" phrase with a time of day
AtChecked ==
    /\ last.op = "schedule_reminder"
    /\ last.kind = "other"
    /\ ~last.phrase.tomorrow
    /\ last.phrase.at /\ last.phrase.tod # NoTime

\* C29: schedule_reminder reads the clock twice, and a phrase resolved from
\* the first reading is never rejected as past at the second: every "in N
\* unit" / "after N unit" with N >= 0 and every "today at" / "at" phrase is
\* accepted.
C29_NeverPast == (RelativeChecked \/ AtChecked) => last.result.success

\* C29, amended: such a phrase is rejected as past exactly when the clock has
\* moved past the resolved time between the two readings: "in N unit" when N
\* units are less than the time between the readings, that is N = 0 as soon
\* as the clock has moved, and an "at" phrase when the time of day it names is
\* at or after the first reading and before the second.
C29_PastOnlyWhenClockMoved ==
    /\ RelativeChecked =>
           ((last.result.error = "past") <=>
               last.n < (last.now - last.read + WordSeconds(last.unit) - 1)
                            \div WordSeconds(last.unit))
    /\ AtChecked =>
           /\ (last.result.error = "past") <=>
                  /\ last.read <= DayStart(last.read) + last.phrase.tod
                  /\ DayStart(last.read) + last.phrase.tod < last.now
           /\ last.result.success <=> last.result.error # "past"

\* "in 0 seconds" is rejected as past, the clock having moved by a second
C29_ZeroRejected ==
    /\ RelativeChecked
    /\ last.n = 0
    /\ last.now = last.read + 1
    /\ ~last.result.success /\ last.result.error = "past"

\* C30: the step in which the write that marks the row of the watched job
\* fails, the send having succeeded, ends the execution and leaves the table
\* and the job store as they were
UnmarkedStepStops ==
    (watch'.unmarked /\ ~watch.unmarked)
        => /\ db' = db
           /\ db[watch.id].exists
           /\ ~db[watch.id].sent =>
                  ~db'[watch.id].sent /\ ~db'[watch.id].completed
           /\ jobs' = jobs
           /\ ~(\E e \in running' : e.seq = watch.seq)

\* C30: when the send succeeds and the write that marks the row fails, the
\* callback ends there: the row is left as it was, not marked as sent, the job
\* is no longer in the store, and the reminder that was sent once is not sent
\* again.
C30_Swallowed ==
    /\ [](watch.unmarked =>
              /\ watch.invoked = 1 /\ Len(watch.sends) = 1 /\ ~InFlight
              /\ WatchedJob = {})
    /\ [][UnmarkedStepStops]_vars

\* the reminder of the only job of an id was sent and its row is not marked
C30_SentUnmarked ==
    /\ watch.unmarked /\ ~watch.again /\ ~watch.had
    /\ Len(watch.sends) = 1
    /\ db[watch.id].exists /\ ~db[watch.id].sent /\ ~db[watch.id].completed
    /\ JobsOf(jobs, watch.id) = {}
=============================================================================
